---- MODULE Spec2Model ----
(***************************************************************************)
(* Hours-of-Service engine of backend/logs/hos.py: calculate_daily_totals  *)
(* and detect_violations, run on bounded inputs.                           *)
(*                                                                         *)
(* Representation.  A datetime is [m |-> whole minutes since 00:00 of day  *)
(* 0, us |-> microseconds inside that minute]; a day key 'YYYY-MM-DD' is   *)
(* the number of the calendar day.  Hours (floats rounded to 2 decimals)   *)
(* are integers in hundredths of an hour.                                  *)
(***************************************************************************)
EXTENDS Integers, Sequences, FiniteSets, TLC

VARIABLES
    entries_by_day,              \* argument: day key -> list of LogEntry
    pc,                          \* position in the run
    totals,                      \* results of the direct calculate_daily_totals calls
    daily_totals_map,            \* detect_violations: day -> DailyTotals
    day_pos,                     \* detect_violations: position in entries_by_day.items()
    seq,                         \* detect_violations: the day's clamped sequence
    idx,                         \* detect_violations: number of intervals processed
    window_start,                \* <<>> for None, <<t>> for a datetime
    max_window_span_min,
    driving_since_reset_min,
    max_driving_since_reset_min,
    minutes_driving_since_break,
    had_violation_30,
    violations,                  \* the list detect_violations returns
    returned,                    \* the results of the calls completed before this one
    request,                     \* the request being served
    log_events,                  \* the rows of LogEvent
    daily_logs,                  \* the rows of DailyLog
    response                     \* HTTP status of the last response of the logs views, 0 for none

vars == <<entries_by_day, pc, totals, daily_totals_map, day_pos, seq, idx,
          window_start, max_window_span_min, driving_since_reset_min,
          max_driving_since_reset_min, minutes_driving_since_break,
          had_violation_30, violations, returned, request, log_events,
          daily_logs, response>>

db == <<log_events, daily_logs, response>>

(***************************************************************************)
(* Bounds of the input space                                               *)
(***************************************************************************)
MaxLen == 3         \* longest freely chosen entry list
NumDays == 9        \* day keys of the multi-day inputs
MaxWorked == 3      \* days of a multi-day input that hold entries
TheDay == 1         \* day key of the single-day inputs
MaxCalls == 2       \* calls made with the same arguments

(***************************************************************************)
(* Data                                                                    *)
(***************************************************************************)
LogStatus == {"OFF", "SLEEPER", "DRIVING", "ON_DUTY"}

MinPerDay == 1440
UsPerMin == 60000000

At(day, minute, us) == [m |-> day * MinPerDay + minute, us |-> us]

LogEntry(t, s) == [timestamp |-> t, status |-> s]

\* t1 < t2 on datetimes
Lt(t1, t2) == t1.m < t2.m \/ (t1.m = t2.m /\ t1.us < t2.us)

Le(t1, t2) == ~Lt(t2, t1)

\* datetime.fromisoformat(f"{day}T00:00:00+00:00")
DayStartOf(day) == [m |-> day * MinPerDay, us |-> 0]

\* datetime.fromisoformat(f"{day}T23:59:59.999999+00:00")
DayEndOf(day) == [m |-> day * MinPerDay + (MinPerDay - 1), us |-> UsPerMin - 1]

\* int((t1 - t0).total_seconds() // 60): floor of the difference in minutes
FloorMinutes(t0, t1) == (t1.m - t0.m) - (IF t1.us < t0.us THEN 1 ELSE 0)

Max(a, b) == IF a >= b THEN a ELSE b

\* round(minutes / 60.0, 2), in hundredths of an hour.  minutes * 100 / 60 is
\* never half-way between two integers, so rounding is to the nearest one.
_round_hours(minutes) == (10 * minutes + 3) \div 6

DailyTotals(off, sleeper, driving, on_duty) ==
    [off_hours |-> off, sleeper_hours |-> sleeper,
     driving_hours |-> driving, on_duty_hours |-> on_duty]

Violation(code, message, day) == [code |-> code, message |-> message, day |-> day]

(***************************************************************************)
(* calculate_daily_totals                                                  *)
(***************************************************************************)
RECURSIVE ClampFrom_KeepEarlier(_, _, _)
\* variant: entries before the window are not skipped
ClampFrom_KeepEarlier(entries, i, day) ==
    IF i > Len(entries) THEN <<>>
    ELSE IF Lt(DayEndOf(day), entries[i].timestamp) THEN <<>>
    ELSE <<entries[i]>> \o ClampFrom_KeepEarlier(entries, i + 1, day)

RECURSIVE ClampFrom(_, _, _)
\* the loop of lines 46-52 from position i on: skip entries before the window,
\* stop at the first entry after it
ClampFrom(entries, i, day) ==
    IF i > Len(entries) THEN <<>>
    ELSE IF Lt(entries[i].timestamp, DayStartOf(day)) THEN ClampFrom(entries, i + 1, day)
    ELSE IF Lt(DayEndOf(day), entries[i].timestamp) THEN <<>>
    ELSE <<entries[i]>> \o ClampFrom(entries, i + 1, day)

Clamp(entries, day) == ClampFrom(entries, 1, day)

\* variant: the time before the first entry is credited to OFF
Seed_Off(clamped, day) ==
    IF Lt(DayStartOf(day), clamped[1].timestamp)
    THEN <<LogEntry(DayStartOf(day), "OFF")>> \o clamped
    ELSE clamped

\* seed at the day start with the first entry's status
Seed(clamped, day) ==
    IF Lt(DayStartOf(day), clamped[1].timestamp)
    THEN <<LogEntry(DayStartOf(day), clamped[1].status)>> \o clamped
    ELSE clamped

\* closing entry at the day end with the last entry's status
Close(clamped, day) ==
    IF Le(clamped[Len(clamped)].timestamp, DayEndOf(day))
    THEN Append(clamped, LogEntry(DayEndOf(day), clamped[Len(clamped)].status))
    ELSE clamped

\* variant: the delta of an interval is taken as it is
IntervalMinutes_Signed(s, i) == FloorMinutes(s[i].timestamp, s[i + 1].timestamp)

\* minutes = max(0, int((t1 - t0).total_seconds() // 60)) of interval i
IntervalMinutes(s, i) == Max(0, FloorMinutes(s[i].timestamp, s[i + 1].timestamp))

RECURSIVE TotalsMin_NextStatus(_, _, _)
\* variant: an interval is credited to the status of the entry that ends it
TotalsMin_NextStatus(s, n, status) ==
    IF n = 0 THEN 0
    ELSE TotalsMin_NextStatus(s, n - 1, status)
         + (IF s[n + 1].status = status THEN IntervalMinutes(s, n) ELSE 0)

RECURSIVE TotalsMin(_, _, _)
\* totals_min[status] after the first n intervals
TotalsMin(s, n, status) ==
    IF n = 0 THEN 0
    ELSE TotalsMin(s, n - 1, status)
         + (IF s[n].status = status THEN IntervalMinutes(s, n) ELSE 0)

\* variant: the time before the first in-window entry is credited to the
\* status of the last entry before the window, when there is one
calculate_daily_totals_PriorSeed(entries, day) ==
    LET clamped == Clamp(entries, day)
        before == {i \in 1..Len(entries) : Lt(entries[i].timestamp, DayStartOf(day))}
        prior == CHOOSE i \in before : \A j \in before : j <= i
    IN
    IF clamped = <<>>
    THEN DailyTotals(_round_hours(24 * 60), 0, 0, 0)
    ELSE LET seeded == IF before # {} /\ Lt(DayStartOf(day), clamped[1].timestamp)
                       THEN <<LogEntry(DayStartOf(day), entries[prior].status)>> \o clamped
                       ELSE Seed(clamped, day)
             s == Close(seeded, day)
             n == Len(s) - 1
         IN DailyTotals(_round_hours(TotalsMin(s, n, "OFF")),
                        _round_hours(TotalsMin(s, n, "SLEEPER")),
                        _round_hours(TotalsMin(s, n, "DRIVING")),
                        _round_hours(TotalsMin(s, n, "ON_DUTY")))

calculate_daily_totals(entries, day) ==
    LET clamped == Clamp(entries, day) IN
    IF clamped = <<>>
    THEN DailyTotals(_round_hours(24 * 60), 0, 0, 0)
    ELSE LET s == Close(Seed(clamped, day), day)
             n == Len(s) - 1
         IN DailyTotals(_round_hours(TotalsMin(s, n, "OFF")),
                        _round_hours(TotalsMin(s, n, "SLEEPER")),
                        _round_hours(TotalsMin(s, n, "DRIVING")),
                        _round_hours(TotalsMin(s, n, "ON_DUTY")))

(***************************************************************************)
(* detect_violations: helpers                                              *)
(***************************************************************************)
\* position of e in the ascending list s: after every entry that is not later
InsertSorted(s, e) ==
    LET k == Cardinality({i \in 1..Len(s) : Le(s[i].timestamp, e.timestamp)})
    IN SubSeq(s, 1, k) \o <<e>> \o SubSeq(s, k + 1, Len(s))

\* variant: the list is used in the order given
sorted_AsGiven(entries) == entries

RECURSIVE sorted(_)
\* sorted(entries, key=lambda e: e.timestamp): ascending and stable
sorted(entries) ==
    IF entries = <<>> THEN <<>>
    ELSE InsertSorted(sorted(SubSeq(entries, 1, Len(entries) - 1)), entries[Len(entries)])

\* variant: no entry is put at the window start
DaySeq_NoSeed(entries, day) ==
    LET clamped == Clamp(sorted(entries), day)
    IN IF clamped = <<>> THEN <<>> ELSE Close(clamped, day)

\* variant: the day's sequence is clamped from the list as given
DaySeq_Unsorted(entries, day) ==
    LET clamped == Clamp(entries, day)
    IN IF clamped = <<>> THEN <<>> ELSE Close(Seed(clamped, day), day)

\* the day's clamped, seeded and closed sequence (lines 103-117); <<>> when no
\* entry lies inside the window
DaySeq(entries, day) ==
    LET clamped == Clamp(sorted(entries), day)
    IN IF clamped = <<>> THEN <<>> ELSE Close(Seed(clamped, day), day)

\* variant: only a rest longer than 10 hours resets
IsTenHourReset_Longer(s0, minutes) == s0 \in {"OFF", "SLEEPER"} /\ minutes > 10 * 60

\* 10-hour reset
IsTenHourReset(s0, minutes) == s0 \in {"OFF", "SLEEPER"} /\ minutes >= 10 * 60

\* variant: an OFF/SLEEPER interval of any length counts as the break
IsBreak_AnyLength(s0, minutes) == s0 \in {"OFF", "SLEEPER"}

\* an OFF/SLEEPER interval that counts as the 30-minute break
IsBreak(s0, minutes) == s0 \in {"OFF", "SLEEPER"} /\ minutes >= 30

\* variant: the flag follows the counter instead of staying set
Flag30_NotSticky(had, since_break) == since_break > 8 * 60

\* variant: the mid-day check fires at exactly 8 hours
Flag30_AtLeast(had, since_break) == had \/ since_break >= 8 * 60

\* 30-minute break rule check mid-day
Flag30(had, since_break) == had \/ since_break > 8 * 60

\* variant: the end-of-day check requires more than 8 hours
Flag30EndOfDay_Over(had, since_break) == had \/ since_break > 8 * 60

\* End-of-day check for 30-min break
Flag30EndOfDay(had, since_break) == had \/ since_break >= 8 * 60

\* variant: exactly 11 hours counts as a violation
Over11_AtLeast(max_driving) == max_driving >= 11 * 60

Over11(max_driving) == max_driving > 11 * 60

\* variant: exactly 14 hours counts as a violation
Over14_AtLeast(max_span) == max_span >= 14 * 60

Over14(max_span) == max_span > 14 * 60

Over70(total_min) == total_min > 70 * 60

\* variant: the 14-hour record carries the code of the 11-hour record
DayViolations_SameCode(day, max_driving, max_span, had30) ==
    (IF Over11(max_driving)
     THEN <<Violation("11H", _round_hours(max_driving), day)>> ELSE <<>>)
    \o (IF Over14(max_span)
        THEN <<Violation("11H", _round_hours(max_span), day)>> ELSE <<>>)
    \o (IF had30 THEN <<Violation("30M", 0, day)>> ELSE <<>>)

\* the records appended for one day (lines 168-186)
DayViolations(day, max_driving, max_span, had30) ==
    (IF Over11(max_driving)
     THEN <<Violation("11H", _round_hours(max_driving), day)>> ELSE <<>>)
    \o (IF Over14(max_span)
        THEN <<Violation("14H", _round_hours(max_span), day)>> ELSE <<>>)
    \o (IF had30 THEN <<Violation("30M", 0, day)>> ELSE <<>>)

\* pairs (driving_hours, on_duty_hours) for which the double product
\* (driving_hours + on_duty_hours) * 60 lies just below the exact integer and
\* int() yields one minute less: the pairs with one component 0 (no other pair
\* produced by the inputs below is affected)
FloatShort ==
    LET short == {205, 410, 820, 845, 1615, 1640, 1665, 1690}
    IN {<<0, c>> : c \in short} \cup {<<c, 0>> : c \in short}

\* variant: every logged hour of the day counts toward the cycle
OnDutyMin_AllHours(t) ==
    ((t.off_hours + t.sleeper_hours + t.driving_hours + t.on_duty_hours) * 60) \div 100

\* int((totals.driving_hours + totals.on_duty_hours) * 60)
OnDutyMin(t) ==
    LET exact == ((t.driving_hours + t.on_duty_hours) * 60) \div 100
    IN IF <<t.driving_hours, t.on_duty_hours>> \in FloatShort THEN exact - 1 ELSE exact

RECURSIVE SortedKeys(_)
\* sorted(entries_by_day.keys())
SortedKeys(S) ==
    IF S = {} THEN <<>>
    ELSE LET lo == CHOOSE x \in S : \A y \in S : x <= y
         IN <<lo>> \o SortedKeys(S \ {lo})

RECURSIVE SumOnDuty(_, _, _, _)
\* sum(day_to_on_duty_min.get(d, 0) for d in all_days_sorted[lo..hi])
SumOnDuty(map, keys, lo, hi) ==
    IF lo > hi THEN 0
    ELSE OnDutyMin(map[keys[hi]]) + SumOnDuty(map, keys, lo, hi - 1)

\* 0-based all_days_sorted[max(0, idx - 7) : idx + 1] as 1-based positions
WindowLo(i) == Max(1, i - 7)

RECURSIVE CycleViolations(_, _, _)
\* the 70/8 records of the days at positions 1..n, in order (lines 199-204)
CycleViolations(map, keys, n) ==
    IF n = 0 THEN <<>>
    ELSE LET total_min == SumOnDuty(map, keys, WindowLo(n), n)
         IN CycleViolations(map, keys, n - 1)
            \o (IF Over70(total_min)
                THEN <<Violation("70/8", _round_hours(total_min), keys[n])>>
                ELSE <<>>)

\* the key at position k of entries_by_day.items(): insertion order, which is
\* ascending for the inputs built here
ItemKey(ebd, k) ==
    CHOOSE d \in DOMAIN ebd : Cardinality({e \in DOMAIN ebd : e < d}) = k - 1

\* the rolling state at the start of a day (lines 119-125)
RollingInit ==
    [window_start |-> <<>>, max_window_span_min |-> 0, driving_since_reset_min |-> 0,
     max_driving_since_reset_min |-> 0, minutes_driving_since_break |-> 0,
     had_violation_30 |-> FALSE]

\* variant: a 10-hour reset also clears the largest driving total seen so far
StepRolling_ResetMax(r, S, i) ==
    LET t0 == S[i].timestamp
        s0 == S[i].status
        t1 == S[i + 1].timestamp
        minutes == IntervalMinutes(S, i)
        reset == IsTenHourReset(s0, minutes)
        ws1 == IF reset THEN <<>> ELSE r.window_start
        dsr1 == IF reset THEN 0 ELSE r.driving_since_reset_min
        mdb1 == IF reset THEN 0 ELSE r.minutes_driving_since_break
        md1 == IF reset THEN 0 ELSE r.max_driving_since_reset_min
        ws2 == IF s0 \in {"DRIVING", "ON_DUTY"} /\ ws1 = <<>> THEN <<t0>> ELSE ws1
        dsr2 == IF s0 = "DRIVING" THEN dsr1 + minutes ELSE dsr1
        mdb2 == IF s0 = "DRIVING" THEN mdb1 + minutes
                ELSE IF IsBreak(s0, minutes) THEN 0
                ELSE mdb1
    IN [window_start |-> ws2,
        max_window_span_min |->
            IF ws2 # <<>> /\ FloorMinutes(ws2[1], t1) > r.max_window_span_min
            THEN FloorMinutes(ws2[1], t1)
            ELSE r.max_window_span_min,
        driving_since_reset_min |-> dsr2,
        max_driving_since_reset_min |->
            IF s0 = "DRIVING" /\ dsr2 > md1
            THEN dsr2
            ELSE md1,
        minutes_driving_since_break |-> mdb2,
        had_violation_30 |-> Flag30(r.had_violation_30, mdb2)]

\* variant: an ON_DUTY interval of at least 30 minutes counts as the break
StepRolling_OnDutyBreak(r, S, i) ==
    LET t0 == S[i].timestamp
        s0 == S[i].status
        t1 == S[i + 1].timestamp
        minutes == IntervalMinutes(S, i)
        reset == IsTenHourReset(s0, minutes)
        ws1 == IF reset THEN <<>> ELSE r.window_start
        dsr1 == IF reset THEN 0 ELSE r.driving_since_reset_min
        mdb1 == IF reset THEN 0 ELSE r.minutes_driving_since_break
        ws2 == IF s0 \in {"DRIVING", "ON_DUTY"} /\ ws1 = <<>> THEN <<t0>> ELSE ws1
        dsr2 == IF s0 = "DRIVING" THEN dsr1 + minutes ELSE dsr1
        mdb2 == IF s0 = "DRIVING" THEN mdb1 + minutes
                ELSE IF IsBreak(s0, minutes) \/ (s0 = "ON_DUTY" /\ minutes >= 30) THEN 0
                ELSE mdb1
    IN [window_start |-> ws2,
        max_window_span_min |->
            IF ws2 # <<>> /\ FloorMinutes(ws2[1], t1) > r.max_window_span_min
            THEN FloorMinutes(ws2[1], t1)
            ELSE r.max_window_span_min,
        driving_since_reset_min |-> dsr2,
        max_driving_since_reset_min |->
            IF s0 = "DRIVING" /\ dsr2 > r.max_driving_since_reset_min
            THEN dsr2
            ELSE r.max_driving_since_reset_min,
        minutes_driving_since_break |-> mdb2,
        had_violation_30 |-> Flag30(r.had_violation_30, mdb2)]

\* variant: the span is taken before window_start is set for the interval
StepRolling_SpanFirst(r, S, i) ==
    LET t0 == S[i].timestamp
        s0 == S[i].status
        t1 == S[i + 1].timestamp
        minutes == IntervalMinutes(S, i)
        reset == IsTenHourReset(s0, minutes)
        ws1 == IF reset THEN <<>> ELSE r.window_start
        dsr1 == IF reset THEN 0 ELSE r.driving_since_reset_min
        mdb1 == IF reset THEN 0 ELSE r.minutes_driving_since_break
        ws2 == IF s0 \in {"DRIVING", "ON_DUTY"} /\ ws1 = <<>> THEN <<t0>> ELSE ws1
        dsr2 == IF s0 = "DRIVING" THEN dsr1 + minutes ELSE dsr1
        mdb2 == IF s0 = "DRIVING" THEN mdb1 + minutes
                ELSE IF IsBreak(s0, minutes) THEN 0
                ELSE mdb1
    IN [window_start |-> ws2,
        max_window_span_min |->
            IF ws1 # <<>> /\ FloorMinutes(ws1[1], t1) > r.max_window_span_min
            THEN FloorMinutes(ws1[1], t1)
            ELSE r.max_window_span_min,
        driving_since_reset_min |-> dsr2,
        max_driving_since_reset_min |->
            IF s0 = "DRIVING" /\ dsr2 > r.max_driving_since_reset_min
            THEN dsr2
            ELSE r.max_driving_since_reset_min,
        minutes_driving_since_break |-> mdb2,
        had_violation_30 |-> Flag30(r.had_violation_30, mdb2)]

\* the body of the loop of lines 127-162 for interval i of S, from rolling state r
StepRolling(r, S, i) ==
    LET t0 == S[i].timestamp
        s0 == S[i].status
        t1 == S[i + 1].timestamp
        minutes == IntervalMinutes(S, i)
        reset == IsTenHourReset(s0, minutes)
        ws1 == IF reset THEN <<>> ELSE r.window_start
        dsr1 == IF reset THEN 0 ELSE r.driving_since_reset_min
        mdb1 == IF reset THEN 0 ELSE r.minutes_driving_since_break
        ws2 == IF s0 \in {"DRIVING", "ON_DUTY"} /\ ws1 = <<>> THEN <<t0>> ELSE ws1
        dsr2 == IF s0 = "DRIVING" THEN dsr1 + minutes ELSE dsr1
        mdb2 == IF s0 = "DRIVING" THEN mdb1 + minutes
                ELSE IF IsBreak(s0, minutes) THEN 0
                ELSE mdb1
    IN [window_start |-> ws2,
        max_window_span_min |->
            IF ws2 # <<>> /\ FloorMinutes(ws2[1], t1) > r.max_window_span_min
            THEN FloorMinutes(ws2[1], t1)
            ELSE r.max_window_span_min,
        driving_since_reset_min |-> dsr2,
        max_driving_since_reset_min |->
            IF s0 = "DRIVING" /\ dsr2 > r.max_driving_since_reset_min
            THEN dsr2
            ELSE r.max_driving_since_reset_min,
        minutes_driving_since_break |-> mdb2,
        had_violation_30 |-> Flag30(r.had_violation_30, mdb2)]

RECURSIVE RunDay(_, _)
\* the rolling state after the first n intervals of S
RunDay(S, n) == IF n = 0 THEN RollingInit ELSE StepRolling(RunDay(S, n - 1), S, n)

\* the records one day's list yields (lines 98-186)
DayRecords(entries, day) ==
    LET S == DaySeq(entries, day)
    IN IF S = <<>> THEN <<>>
       ELSE LET r == RunDay(S, Len(S) - 1)
            IN DayViolations(day, r.max_driving_since_reset_min, r.max_window_span_min,
                             Flag30EndOfDay(r.had_violation_30,
                                            r.minutes_driving_since_break))

RECURSIVE AllDayRecords(_, _, _)
\* the records of the first n day keys, in the order of the keys
AllDayRecords(ebd, keys, n) ==
    IF n = 0 THEN <<>>
    ELSE AllDayRecords(ebd, keys, n - 1) \o DayRecords(ebd[keys[n]], keys[n])

\* the list detect_violations returns for entries_by_day = ebd (lines 93-206)
detect_violations(ebd) ==
    LET keys == SortedKeys(DOMAIN ebd)
        map == [d \in DOMAIN ebd |-> calculate_daily_totals(sorted(ebd[d]), d)]
    IN AllDayRecords(ebd, keys, Len(keys))
       \o (IF DOMAIN ebd # {} THEN CycleViolations(map, keys, Len(keys)) ELSE <<>>)

\* a DriverProfile.time_zone value: "UTC+hh:mm" / "UTC-hh:mm" (kind "utc"), or
\* a string that does not start with "UTC", or none (kind "other")
TimeZone(kind, sign, hours, minutes) ==
    [kind |-> kind, sign |-> sign, hours |-> hours, minutes |-> minutes]

\* views.py:61-70, the offset in minutes
_parse_utc_offset(offset_str) ==
    IF offset_str.kind # "utc" THEN 0
    ELSE (IF offset_str.sign = "+" THEN 1 ELSE -1)
         * (60 * offset_str.hours + offset_str.minutes)

\* (ev.timestamp + offset).date() as a day number
LocalDay(timestamp, offset) == (timestamp.m + offset) \div MinPerDay

\* views.py:139-147: the events grouped by local day, each entry keeping the
\* event's own timestamp, in the order of the query
GroupByLocalDay(logs, offset) ==
    [d \in {LocalDay(logs[i].timestamp, offset) : i \in 1..Len(logs)} |->
        SelectSeq(logs, LAMBDA ev : LocalDay(ev.timestamp, offset) = d)]

(***************************************************************************)
(* Actions                                                                 *)
(***************************************************************************)
rolling == <<seq, idx, window_start, max_window_span_min, driving_since_reset_min,
             max_driving_since_reset_min, minutes_driving_since_break,
             had_violation_30>>

\* a caller computing the totals of every day from the lists as given
CallDailyTotals ==
    /\ pc = "call_totals"
    /\ totals' = [d \in DOMAIN entries_by_day |->
                     calculate_daily_totals(entries_by_day[d], d)]
    /\ pc' = "day"
    /\ UNCHANGED <<entries_by_day, request, db, returned, daily_totals_map, day_pos, rolling, violations>>

\* variant: the day's list is sorted in place (entries.sort(...))
BeginDay_SortInPlace ==
    /\ pc = "day"
    /\ day_pos < Cardinality(DOMAIN entries_by_day)
    /\ LET day == ItemKey(entries_by_day, day_pos + 1)
           sorted_entries == sorted(entries_by_day[day])
       IN /\ DaySeq(entries_by_day[day], day) # <<>>
          /\ entries_by_day' = [entries_by_day EXCEPT ![day] = sorted_entries]
          /\ daily_totals_map' =
                 [d \in DOMAIN daily_totals_map \cup {day} |->
                     IF d = day THEN calculate_daily_totals(sorted_entries, day)
                     ELSE daily_totals_map[d]]
          /\ seq' = DaySeq(entries_by_day[day], day)
    /\ idx' = 0
    /\ window_start' = RollingInit.window_start
    /\ max_window_span_min' = RollingInit.max_window_span_min
    /\ driving_since_reset_min' = RollingInit.driving_since_reset_min
    /\ max_driving_since_reset_min' = RollingInit.max_driving_since_reset_min
    /\ minutes_driving_since_break' = RollingInit.minutes_driving_since_break
    /\ had_violation_30' = RollingInit.had_violation_30
    /\ pc' = "interval"
    /\ UNCHANGED <<request, db, returned, totals, day_pos, violations>>

\* variant: the rolling state carries over from the day before
BeginDay_KeepState ==
    /\ pc = "day"
    /\ day_pos < Cardinality(DOMAIN entries_by_day)
    /\ LET day == ItemKey(entries_by_day, day_pos + 1)
           sorted_entries == sorted(entries_by_day[day])
       IN /\ DaySeq(entries_by_day[day], day) # <<>>
          /\ daily_totals_map' =
                 [d \in DOMAIN daily_totals_map \cup {day} |->
                     IF d = day THEN calculate_daily_totals(sorted_entries, day)
                     ELSE daily_totals_map[d]]
          /\ seq' = DaySeq(entries_by_day[day], day)
    /\ idx' = 0
    /\ pc' = "interval"
    /\ UNCHANGED <<entries_by_day, request, db, returned, totals, day_pos, violations, window_start,
                   max_window_span_min, driving_since_reset_min,
                   max_driving_since_reset_min, minutes_driving_since_break,
                   had_violation_30>>

\* lines 98-125 for a day with at least one entry inside its window
BeginDay ==
    /\ pc = "day"
    /\ day_pos < Cardinality(DOMAIN entries_by_day)
    /\ LET day == ItemKey(entries_by_day, day_pos + 1)
           sorted_entries == sorted(entries_by_day[day])
       IN /\ DaySeq(entries_by_day[day], day) # <<>>
          /\ daily_totals_map' =
                 [d \in DOMAIN daily_totals_map \cup {day} |->
                     IF d = day THEN calculate_daily_totals(sorted_entries, day)
                     ELSE daily_totals_map[d]]
          /\ seq' = DaySeq(entries_by_day[day], day)
    /\ idx' = 0
    /\ window_start' = RollingInit.window_start
    /\ max_window_span_min' = RollingInit.max_window_span_min
    /\ driving_since_reset_min' = RollingInit.driving_since_reset_min
    /\ max_driving_since_reset_min' = RollingInit.max_driving_since_reset_min
    /\ minutes_driving_since_break' = RollingInit.minutes_driving_since_break
    /\ had_violation_30' = RollingInit.had_violation_30
    /\ pc' = "interval"
    /\ UNCHANGED <<entries_by_day, request, db, returned, totals, day_pos, violations>>

\* lines 98-113 for a day with no entry inside its window: continue
SkipDay ==
    /\ pc = "day"
    /\ day_pos < Cardinality(DOMAIN entries_by_day)
    /\ LET day == ItemKey(entries_by_day, day_pos + 1)
           sorted_entries == sorted(entries_by_day[day])
       IN /\ DaySeq(entries_by_day[day], day) = <<>>
          /\ daily_totals_map' =
                 [d \in DOMAIN daily_totals_map \cup {day} |->
                     IF d = day THEN calculate_daily_totals(sorted_entries, day)
                     ELSE daily_totals_map[d]]
    /\ day_pos' = day_pos + 1
    /\ UNCHANGED <<entries_by_day, request, db, returned, pc, totals, rolling, violations>>

\* one iteration of the loop of lines 127-162
IntervalStep ==
    /\ pc = "interval"
    /\ idx < Len(seq) - 1
    /\ LET r == StepRolling(
                    [window_start |-> window_start,
                     max_window_span_min |-> max_window_span_min,
                     driving_since_reset_min |-> driving_since_reset_min,
                     max_driving_since_reset_min |-> max_driving_since_reset_min,
                     minutes_driving_since_break |-> minutes_driving_since_break,
                     had_violation_30 |-> had_violation_30],
                    seq, idx + 1)
       IN /\ window_start' = r.window_start
          /\ max_window_span_min' = r.max_window_span_min
          /\ driving_since_reset_min' = r.driving_since_reset_min
          /\ max_driving_since_reset_min' = r.max_driving_since_reset_min
          /\ minutes_driving_since_break' = r.minutes_driving_since_break
          /\ had_violation_30' = r.had_violation_30
    /\ idx' = idx + 1
    /\ UNCHANGED <<entries_by_day, request, db, returned, pc, totals, daily_totals_map, day_pos, seq, violations>>

\* lines 164-186: the end-of-day check and the day's records
EndDay ==
    /\ pc = "interval"
    /\ idx = Len(seq) - 1
    /\ LET day == ItemKey(entries_by_day, day_pos + 1)
           had30 == Flag30EndOfDay(had_violation_30, minutes_driving_since_break)
       IN /\ had_violation_30' = had30
          /\ violations' = violations
                 \o DayViolations(day, max_driving_since_reset_min,
                                  max_window_span_min, had30)
    /\ day_pos' = day_pos + 1
    /\ pc' = "day"
    /\ UNCHANGED <<entries_by_day, request, db, returned, totals, daily_totals_map, seq, idx, window_start,
                   max_window_span_min, driving_since_reset_min,
                   max_driving_since_reset_min, minutes_driving_since_break>>

\* lines 188-206: the rolling 8-day check (cycle is "70/8") and the return
CycleCheck ==
    /\ pc = "day"
    /\ day_pos = Cardinality(DOMAIN entries_by_day)
    /\ violations' =
           IF DOMAIN entries_by_day # {}
           THEN violations
                \o CycleViolations(daily_totals_map, SortedKeys(DOMAIN entries_by_day),
                                   Cardinality(DOMAIN entries_by_day))
           ELSE violations
    /\ pc' = "done"
    /\ UNCHANGED <<entries_by_day, request, db, returned, totals, daily_totals_map, day_pos, rolling>>

Next == CallDailyTotals \/ BeginDay \/ SkipDay \/ IntervalStep \/ EndDay \/ CycleCheck

\* HOSSummaryView.get, views.py:119-147: 404 for a trip the requester does not own
NotFound ==
    /\ pc = "get"
    /\ ~request.owned
    /\ pc' = "not_found"
    /\ UNCHANGED <<entries_by_day, request, db, returned, totals, daily_totals_map, day_pos,
                   rolling, violations>>

\* HOSSummaryView.get, views.py:126-147: the driver's events grouped by local day
GroupEvents ==
    /\ pc = "get"
    /\ request.owned
    /\ entries_by_day' = GroupByLocalDay(request.logs, _parse_utc_offset(request.time_zone))
    /\ pc' = "call_totals"
    /\ UNCHANGED <<request, db, returned, totals, daily_totals_map, day_pos, rolling, violations>>

NextView == NotFound \/ GroupEvents \/ Next

\* the caller repeats both calls with the same arguments (a further request);
\* the locals of the finished call are not defined in the new one, so the
\* values left in them stay where they are
CallAgain ==
    /\ pc = "done"
    /\ Len(returned) < MaxCalls - 1
    /\ returned' = Append(returned, [totals |-> totals, violations |-> violations])
    /\ totals' = <<>>
    /\ daily_totals_map' = <<>>
    /\ day_pos' = 0
    /\ violations' = <<>>
    /\ pc' = "call_totals"
    /\ UNCHANGED <<entries_by_day, request, db, rolling>>

NextTwice == Next \/ CallAgain

(***************************************************************************)
(* Inputs                                                                  *)
(***************************************************************************)
\* the entries lists are drawn from: stamps inside the window of TheDay (whole
\* minutes and one with a seconds part), one stamp before and one after it
EntrySet ==
    {LogEntry(At(TheDay, 0, 0), s) : s \in {"OFF", "DRIVING", "ON_DUTY"}}
    \cup {LogEntry(At(TheDay, 1, 0), s) : s \in {"OFF", "DRIVING"}}
    \cup {LogEntry(At(TheDay, 481, 0), s) : s \in {"OFF", "SLEEPER", "ON_DUTY"}}
    \cup {LogEntry(At(TheDay, 661, 0), s) : s \in {"SLEEPER", "DRIVING"}}
    \cup {LogEntry(At(TheDay, 661, 30000000), "OFF")}
    \cup {LogEntry(At(TheDay, 1261, 0), "DRIVING")}
    \cup {LogEntry(At(TheDay - 1, 1380, 0), "DRIVING"), LogEntry(At(TheDay + 1, 0, 0), "DRIVING")}

\* n entries of one status, one per hour from midnight
Hourly(day, n, s) == [i \in 1..n |-> LogEntry(At(day, 60 * (i - 1), 0), s)]

\* two 6-hour driving blocks separated by a 10-hour OFF interval
TwoBlocks(day) ==
    <<LogEntry(At(day, 0, 0), "DRIVING"), LogEntry(At(day, 360, 0), "OFF"),
      LogEntry(At(day, 960, 0), "DRIVING"), LogEntry(At(day, 1320, 0), "OFF")>>

\* OFF from midnight, ON_DUTY from minute m to the end of the day
LateStart(day, m) ==
    <<LogEntry(At(day, 0, 0), "OFF"), LogEntry(At(day, m, 0), "ON_DUTY")>>

\* two 5-hour driving blocks separated by 5 hours ON_DUTY
SplitDriving(day) ==
    <<LogEntry(At(day, 0, 0), "DRIVING"), LogEntry(At(day, 300, 0), "ON_DUTY"),
      LogEntry(At(day, 600, 0), "DRIVING"), LogEntry(At(day, 900, 0), "OFF")>>

\* three times 30 seconds ON_DUTY, at 00:00, 08:20 and 16:40, OFF in between
BriefDuty(day) ==
    <<LogEntry(At(day, 0, 0), "ON_DUTY"), LogEntry(At(day, 0, 30000000), "OFF"),
      LogEntry(At(day, 500, 0), "ON_DUTY"), LogEntry(At(day, 500, 30000000), "OFF"),
      LogEntry(At(day, 1000, 0), "ON_DUTY"), LogEntry(At(day, 1000, 30000000), "OFF")>>

Scenarios ==
    {Hourly(TheDay, 12, "DRIVING"), Hourly(TheDay, 9, "DRIVING"), TwoBlocks(TheDay),
     LateStart(TheDay, 598), LateStart(TheDay, 599), SplitDriving(TheDay),
     BriefDuty(TheDay)}

\* day profiles of the multi-day inputs: no entry inside the day's window (no
\* entry at all on even days, one entry stamped 23:00 of the day before on odd
\* days), DRIVING all day (stated twice), DRIVING until 22:03, a short drive
\* (until 05:00 on even days, from 17:00 on odd days)
ProfileNames == {"none", "driving", "partial", "short"}

Profile(day, name) ==
    CASE name = "none" ->
            IF day % 2 = 0 THEN <<>> ELSE <<LogEntry(At(day - 1, 1380, 0), "DRIVING")>>
      [] name = "driving" ->
            <<LogEntry(At(day, 0, 0), "DRIVING"), LogEntry(At(day, 720, 0), "DRIVING")>>
      [] name = "partial" ->
            <<LogEntry(At(day, 0, 0), "DRIVING"), LogEntry(At(day, 1323, 0), "OFF")>>
      [] name = "short" ->
            IF day % 2 = 0
            THEN <<LogEntry(At(day, 0, 0), "DRIVING"), LogEntry(At(day, 300, 0), "OFF")>>
            ELSE <<LogEntry(At(day, 0, 0), "OFF"), LogEntry(At(day, 1020, 0), "DRIVING")>>

InitWith(ebd) ==
    /\ entries_by_day = ebd
    /\ pc = "call_totals"
    /\ totals = <<>>
    /\ daily_totals_map = <<>>
    /\ day_pos = 0
    /\ seq = <<>>
    /\ idx = 0
    /\ window_start = <<>>
    /\ max_window_span_min = 0
    /\ driving_since_reset_min = 0
    /\ max_driving_since_reset_min = 0
    /\ minutes_driving_since_break = 0
    /\ had_violation_30 = FALSE
    /\ violations = <<>>
    /\ returned = <<>>
    /\ request = [owned |-> TRUE, time_zone |-> TimeZone("other", "+", 0, 0), logs |-> <<>>]
    /\ log_events = {}
    /\ daily_logs = {}
    /\ response = 0

Init ==
    \/ \E k \in 0..MaxLen : \E l \in [1..k -> EntrySet] : InitWith([d \in {TheDay} |-> l])
    \/ \E l \in Scenarios : InitWith([d \in {TheDay} |-> l])

Spec == Init /\ [][Next]_vars

SpecTwice == Init /\ [][NextTwice]_vars

\* a mapping without day keys, NumDays consecutive day keys, or keys only for
\* those of NumDays consecutive days that hold entries (the grouping of
\* views.py:141-147 creates a key for a day when it meets an event of that day)
InitCycle ==
    \/ InitWith(<<>>)
    \/ \E choice \in [0..(NumDays - 1) -> ProfileNames] :
            /\ Cardinality({d \in DOMAIN choice : choice[d] # "none"}) <= MaxWorked
            /\ \/ InitWith([d \in 0..(NumDays - 1) |-> Profile(d, choice[d])])
               \/ InitWith([d \in {e \in DOMAIN choice : choice[e] # "none"} |->
                               Profile(d, choice[d])])

SpecCycle == InitCycle /\ [][Next]_vars

\* time zones of the driver profile: none, UTC+01:00, UTC-05:00, UTC+05:30
TimeZones ==
    {TimeZone("other", "+", 0, 0), TimeZone("utc", "+", 1, 0),
     TimeZone("utc", "-", 5, 0), TimeZone("utc", "+", 5, 30)}

\* a request for the summary of a trip: the stored events arrive ordered by
\* timestamp (views.py:138)
InitView ==
    \E owned \in BOOLEAN, tz \in TimeZones, k \in 0..MaxLen :
        \E l \in [1..k -> EntrySet] :
            /\ \A i \in 1..(k - 1) : Le(l[i].timestamp, l[i + 1].timestamp)
            /\ request = [owned |-> owned, time_zone |-> tz, logs |-> l]
            /\ entries_by_day = <<>>
            /\ pc = "get"
            /\ totals = <<>>
            /\ daily_totals_map = <<>>
            /\ day_pos = 0
            /\ seq = <<>>
            /\ idx = 0
            /\ window_start = <<>>
            /\ max_window_span_min = 0
            /\ driving_since_reset_min = 0
            /\ max_driving_since_reset_min = 0
            /\ minutes_driving_since_break = 0
            /\ had_violation_30 = FALSE
            /\ violations = <<>>
            /\ returned = <<>>
            /\ log_events = {}
            /\ daily_logs = {}
            /\ response = 0

SpecView == InitView /\ [][NextView]_vars

(***************************************************************************)
(* The daily log: LogEventCreateView and DailyLogSubmitView                *)
(***************************************************************************)
MaxEvents == 2      \* rows of LogEvent

Users == {"driver", "other"}

\* Trip rows: id and owner; the owner of trip 2 sends no request
TripOwner == [t \in {1, 2} |-> IF t = 1 THEN "driver" ELSE "third"]

\* Trip.objects.get(id=trip_id, owner=request.user) finds a row
OwnsTrip(user, trip_id) == trip_id \in DOMAIN TripOwner /\ TripOwner[trip_id] = user

\* a row of LogEvent (the id and the remark fields play no part)
LogEvent(trip, driver, day, timestamp, status) ==
    [trip |-> trip, driver |-> driver, day |-> day,
     timestamp |-> timestamp, status |-> status]

\* a row of DailyLog; submitted_at is <<>> for NULL, <<"now">> for a time
DailyLog(id, trip, driver, day) ==
    [id |-> id, trip |-> trip, driver |-> driver, day |-> day,
     total_off |-> 0, total_sleeper |-> 0, total_driving |-> 0, total_on_duty |-> 0,
     submitted |-> FALSE, submitted_at |-> <<>>]

\* LogEvent.objects.filter(trip_id=trip_id, driver=user, day=day)
EventsOf(rows, trip_id, user, day) ==
    {ev \in rows : ev.trip = trip_id /\ ev.driver = user /\ ev.day = day}

\* .order_by("timestamp"): the orders the database may return, rows with
\* equal timestamps in any order
OrderedByTimestamp(rows) ==
    {l \in [1..Cardinality(rows) -> rows] :
        /\ \A i, j \in 1..Cardinality(rows) : i # j => l[i] # l[j]
        /\ \A i \in 1..(Cardinality(rows) - 1) : Le(l[i].timestamp, l[i + 1].timestamp)}

\* [LogEntry(timestamp=ev.timestamp, status=ev.status) for ev in logs]
EntriesOf(logs) == [i \in 1..Len(logs) |-> LogEntry(logs[i].timestamp, logs[i].status)]

\* variant: a new row on every call
get_or_create_AlwaysCreate(rows, trip_id, user, day) ==
    DailyLog(Cardinality(rows) + 1, trip_id, user, day)

\* DailyLog.objects.get_or_create(trip_id=..., driver=..., day=...): the row
\* with these three values, or a new one with the defaults
get_or_create(rows, trip_id, user, day) ==
    LET found == {r \in rows : r.trip = trip_id /\ r.driver = user /\ r.day = day}
    IN IF found # {} THEN CHOOSE r \in found : TRUE
       ELSE DailyLog(Cardinality(rows) + 1, trip_id, user, day)

\* daily_log.save(): the row with this id is replaced, or inserted
save(rows, row) == {r \in rows : r.id # row.id} \cup {row}

\* the events a client may send, each at most once
EventSet ==
    {LogEntry(At(TheDay, 0, 0), "DRIVING"), LogEntry(At(TheDay, 0, 0), "OFF"),
     LogEntry(At(TheDay, 661, 30000000), "OFF"), LogEntry(At(TheDay + 1, 0, 0), "DRIVING")}

\* UTC offsets, in minutes, of the zone in which the serializer hands over
\* the timestamp
ServerOffsets == {0, -300}

\* the day values a client may send, <<>> for none
SubmitDays == {<<>>, <<TheDay>>, <<TheDay + 1>>}

\* LogEventCreateView.create, views.py:76-103: 404 for a trip the requester
\* does not own, else a new row whose day is the date of the timestamp
LogEventCreate ==
    /\ pc = "serve"
    /\ Cardinality(log_events) < MaxEvents
    /\ \E user \in Users, trip_id \in DOMAIN TripOwner, e \in EventSet, off \in ServerOffsets :
          LET ev == LogEvent(trip_id, user, LocalDay(e.timestamp, off), e.timestamp, e.status)
          IN /\ ev \notin log_events
             /\ request' = [method |-> "create", user |-> user, trip_id |-> trip_id,
                            day |-> <<>>]
             /\ IF ~OwnsTrip(user, trip_id)
                THEN /\ response' = 404
                     /\ log_events' = log_events
                ELSE /\ response' = 201
                     /\ log_events' = log_events \cup {ev}
    /\ UNCHANGED <<entries_by_day, pc, returned, totals, daily_totals_map, day_pos,
                   rolling, violations, daily_logs>>

\* DailyLogSubmitView.post, views.py:172-201
DailyLogSubmit ==
    /\ pc = "serve"
    /\ \E user \in Users, trip_id \in DOMAIN TripOwner, day \in SubmitDays :
          /\ request' = [method |-> "submit", user |-> user, trip_id |-> trip_id, day |-> day]
          /\ IF day = <<>>
             THEN /\ response' = 400
                  /\ daily_logs' = daily_logs
             ELSE IF ~OwnsTrip(user, trip_id)
             THEN /\ response' = 404
                  /\ daily_logs' = daily_logs
             ELSE \E logs \in OrderedByTimestamp(EventsOf(log_events, trip_id, user, day[1])) :
                     LET entries == EntriesOf(logs)
                         daily_log == get_or_create(daily_logs, trip_id, user, day[1])
                         with_totals ==
                             IF entries # <<>>
                             THEN LET t == calculate_daily_totals(entries, day[1])
                                  IN [daily_log EXCEPT !.total_off = t.off_hours,
                                                       !.total_sleeper = t.sleeper_hours,
                                                       !.total_driving = t.driving_hours,
                                                       !.total_on_duty = t.on_duty_hours]
                             ELSE daily_log
                     IN /\ daily_logs' = save(daily_logs,
                               [with_totals EXCEPT !.submitted = TRUE,
                                                   !.submitted_at = <<"now">>])
                        /\ response' = 200
    /\ UNCHANGED <<entries_by_day, pc, returned, totals, daily_totals_map, day_pos,
                   rolling, violations, log_events>>

NextSubmit == LogEventCreate \/ DailyLogSubmit

\* both tables of a fresh database are empty; the trips exist
InitSubmit ==
    /\ entries_by_day = <<>>
    /\ pc = "serve"
    /\ totals = <<>>
    /\ daily_totals_map = <<>>
    /\ day_pos = 0
    /\ seq = <<>>
    /\ idx = 0
    /\ window_start = <<>>
    /\ max_window_span_min = 0
    /\ driving_since_reset_min = 0
    /\ max_driving_since_reset_min = 0
    /\ minutes_driving_since_break = 0
    /\ had_violation_30 = FALSE
    /\ violations = <<>>
    /\ returned = <<>>
    /\ request = [method |-> "none", user |-> "driver", trip_id |-> 1, day |-> <<>>]
    /\ log_events = {}
    /\ daily_logs = {}
    /\ response = 0

SpecSubmit == InitSubmit /\ [][NextSubmit]_vars

(***************************************************************************)
(* Vocabulary of the properties                                            *)
(***************************************************************************)
Ascending(l) == \A i \in 1..(Len(l) - 1) : Le(l[i].timestamp, l[i + 1].timestamp)

InWindow(t, day) == Le(DayStartOf(day), t) /\ Le(t, DayEndOf(day))

HasInside(l, day) == \E i \in 1..Len(l) : InWindow(l[i].timestamp, day)

DistinctStamps(l) == \A i, j \in 1..Len(l) : i # j => l[i].timestamp # l[j].timestamp

SumHours(t) == t.off_hours + t.sleeper_hours + t.driving_hours + t.on_duty_hours

AllDay(s) ==
    DailyTotals(IF s = "OFF" THEN 2400 ELSE 0, IF s = "SLEEPER" THEN 2400 ELSE 0,
                IF s = "DRIVING" THEN 2400 ELSE 0, IF s = "ON_DUTY" THEN 2400 ELSE 0)

RECURSIVE AscendingOf(_)
\* the entries of a set with pairwise distinct stamps, earliest first
AscendingOf(E) ==
    IF E = {} THEN <<>>
    ELSE LET first == CHOOSE e \in E : \A f \in E : Le(e.timestamp, f.timestamp)
         IN <<first>> \o AscendingOf(E \ {first})

Range(l) == {l[i] : i \in 1..Len(l)}

Has(code, day) == \E i \in 1..Len(violations) : violations[i].code = code /\ violations[i].day = day

\* number of intervals of a day's sequence
Intervals(S) == IF S = <<>> THEN 0 ELSE Len(S) - 1

\* interval i is an OFF/SLEEPER interval of at least lim minutes
Rest(S, i, lim) == S[i].status \in {"OFF", "SLEEPER"} /\ IntervalMinutes(S, i) >= lim

\* the last such interval among 1..k, 0 when there is none
LastRest(S, k, lim) ==
    LET R == {i \in 1..k : Rest(S, i, lim)}
    IN IF R = {} THEN 0 ELSE CHOOSE i \in R : \A j \in R : j <= i

RECURSIVE DrivingIn(_, _, _)
\* DRIVING minutes of the intervals lo..hi
DrivingIn(S, lo, hi) ==
    IF lo > hi THEN 0
    ELSE DrivingIn(S, lo, hi - 1)
         + (IF S[hi].status = "DRIVING" THEN IntervalMinutes(S, hi) ELSE 0)

\* DRIVING minutes at the end of interval k since the start of the day or the
\* last OFF/SLEEPER interval of at least lim minutes
DrivingSince(S, k, lim) == DrivingIn(S, LastRest(S, k, lim) + 1, k)

Exceeds(S, lim, limit) == \E k \in 1..Intervals(S) : DrivingSince(S, k, lim) > limit

SeqOf(d) == DaySeq(entries_by_day[d], d)

(***************************************************************************)
(* Properties                                                              *)
(***************************************************************************)
\* C1: for every day and every ascending entry list with at least one entry
\* inside the day's window, the four totals of calculate_daily_totals sum to
\* 24.00 hours within 0.01.
C1_TotalsSumTo24 ==
    \A d \in DOMAIN totals :
        (Ascending(entries_by_day[d]) /\ HasInside(entries_by_day[d], d))
            => (SumHours(totals[d]) >= 2399 /\ SumHours(totals[d]) <= 2401)

\* C2: a list holding exactly one entry, at 00:00:00 of the day with status s,
\* yields 24.0 hours for s and 0.0 for the three other statuses.
C2_SingleStatusAllDay ==
    \A d \in DOMAIN totals : \A s \in LogStatus :
        entries_by_day[d] = <<LogEntry(DayStartOf(d), s)>> => totals[d] = AllDay(s)

\* C3: when no entry of an ascending list (the empty list included) falls
\* inside the day's window, calculate_daily_totals returns OFF = 24.0 and 0.0
\* for the rest.
C3_NoEntryInsideIsOffAllDay ==
    \A d \in DOMAIN totals :
        (Ascending(entries_by_day[d]) /\ ~HasInside(entries_by_day[d], d))
            => totals[d] = DailyTotals(2400, 0, 0, 0)

C3_Witness ==
    \E d \in DOMAIN totals :
        /\ Ascending(entries_by_day[d])
        /\ ~HasInside(entries_by_day[d], d)
        /\ \E i, j \in 1..Len(entries_by_day[d]) :
              /\ Lt(entries_by_day[d][i].timestamp, DayStartOf(d))
              /\ Lt(DayEndOf(d), entries_by_day[d][j].timestamp)

\* C4 as stated: calculate_daily_totals returns for any ordering of the entries
\* what it returns for the same entries sorted ascending by timestamp.
C4_SameForEveryOrdering ==
    \A d \in DOMAIN totals :
        totals[d] = calculate_daily_totals(sorted(entries_by_day[d]), d)

\* C4 amended: calculate_daily_totals does not sort; the totals detect_violations
\* computes, after sorting the day's list, are for every ordering of entries
\* with pairwise distinct timestamps those of the ascending arrangement.
C4_TotalsAfterSorting ==
    \A d \in DOMAIN daily_totals_map :
        DistinctStamps(entries_by_day[d])
            => daily_totals_map[d]
                   = calculate_daily_totals(AscendingOf(Range(entries_by_day[d])), d)

C4_Witness ==
    \E d \in DOMAIN daily_totals_map \cap DOMAIN totals :
        /\ DistinctStamps(entries_by_day[d])
        /\ ~Ascending(entries_by_day[d])
        /\ totals[d] # daily_totals_map[d]

\* C5: a day gets an 11H record exactly when the DRIVING minutes accumulated
\* since the start of the day or the last OFF/SLEEPER interval of at least 600
\* minutes exceed 660 at the end of some interval of its sequence; 12 hourly
\* DRIVING entries from midnight yield 11H.
C5_ElevenHourRule ==
    pc = "done" =>
        \A d \in DOMAIN entries_by_day :
            /\ Has("11H", d) <=> Exceeds(SeqOf(d), 600, 660)
            /\ entries_by_day[d] = Hourly(d, 12, "DRIVING") => Has("11H", d)

C5_Witness ==
    /\ pc = "done"
    /\ \E d \in DOMAIN entries_by_day :
          entries_by_day[d] = Hourly(d, 12, "DRIVING") /\ Has("11H", d)

\* C6: if at the end of some interval the DRIVING minutes since the start of
\* the day or the last OFF/SLEEPER interval of at least 30 minutes exceed 480,
\* the day gets a 30M record; 9 hourly DRIVING entries yield 30M.
C6_BreakRuleFires ==
    pc = "done" =>
        \A d \in DOMAIN entries_by_day :
            /\ Exceeds(SeqOf(d), 30, 480) => Has("30M", d)
            /\ entries_by_day[d] = Hourly(d, 9, "DRIVING") => Has("30M", d)

C6_Witness ==
    /\ pc = "done"
    /\ \E d \in DOMAIN entries_by_day :
          entries_by_day[d] = Hourly(d, 9, "DRIVING") /\ Has("30M", d)

\* C7 as stated: a day gets a 30M record only if the DRIVING minutes since the
\* last break were strictly greater than 480 at the end of some interval.
C7_BreakRuleOnlyIfExceeded ==
    pc = "done" =>
        \A d \in DOMAIN entries_by_day : Has("30M", d) => Exceeds(SeqOf(d), 30, 480)

\* C7 amended: a day gets a 30M record only if the DRIVING minutes since the
\* last break were greater than 480 at the end of some interval, or at least
\* 480 at the end of the day's last interval.
C7_BreakRuleOnlyIfReached ==
    pc = "done" =>
        \A d \in DOMAIN entries_by_day :
            Has("30M", d)
                => \/ Exceeds(SeqOf(d), 30, 480)
                   \/ DrivingSince(SeqOf(d), Intervals(SeqOf(d)), 30) >= 480

C7_Witness ==
    /\ pc = "done"
    /\ \E d \in DOMAIN entries_by_day :
          /\ Has("30M", d)
          /\ ~Exceeds(SeqOf(d), 30, 480)
          /\ DrivingSince(SeqOf(d), Intervals(SeqOf(d)), 30) = 480

\* C8: right after an OFF/SLEEPER interval of at least 600 minutes both driving
\* accumulators are 0 and window_start is None; two 6-hour driving blocks
\* separated by a 10-hour OFF interval get no 11H record.
C8_TenHourReset ==
    /\ (pc = "interval" /\ idx >= 1 /\ Rest(seq, idx, 600))
           => /\ driving_since_reset_min = 0
              /\ minutes_driving_since_break = 0
              /\ window_start = <<>>
    /\ pc = "done" =>
           \A d \in DOMAIN entries_by_day :
               entries_by_day[d] = TwoBlocks(d) => ~Has("11H", d)

C8_Witness ==
    /\ pc = "done"
    /\ \E d \in DOMAIN entries_by_day :
          /\ entries_by_day[d] = TwoBlocks(d)
          /\ daily_totals_map[d].driving_hours = 1200
          /\ ~Has("11H", d)

RECURSIVE WindowHours(_, _, _, _)
\* sum of driving_hours + on_duty_hours of the days at positions lo..hi
WindowHours(map, keys, lo, hi) ==
    IF lo > hi THEN 0
    ELSE map[keys[hi]].driving_hours + map[keys[hi]].on_duty_hours
         + WindowHours(map, keys, lo, hi - 1)

\* C9: the day at position i of the sorted keys gets a 70/8 record exactly
\* when driving_hours + on_duty_hours of the DailyTotals of the keys at
\* positions max(0, i-7)..i sum to more than 70 hours.
C9_SeventyHourRule ==
    pc = "done" =>
        LET keys == SortedKeys(DOMAIN entries_by_day)
        IN \A i \in 1..Len(keys) :
               Has("70/8", keys[i])
                   <=> WindowHours(daily_totals_map, keys, Max(1, i - 7), i) > 7000

\* C10: the returned list holds at most one record per (code, day).
C10_OneRecordPerCodeAndDay ==
    \A i, j \in 1..Len(violations) :
        (violations[i].code = violations[j].code /\ violations[i].day = violations[j].day)
            => i = j

C10_Witness ==
    /\ pc = "done"
    /\ \E d \in DOMAIN entries_by_day :
          /\ \A c \in {"11H", "14H", "30M", "70/8"} : Has(c, d)
          /\ Cardinality({k \in 1..Intervals(SeqOf(d)) : DrivingSince(SeqOf(d), k, 30) > 480}) >= 2

\* the list the intervals of calculate_daily_totals are taken from
Clamped(entries, day) == Close(Seed(Clamp(entries, day), day), day)

\* C11: calculate_daily_totals never returns a negative total, whatever the
\* order of the list and whether or not timestamps repeat: an interval whose
\* end lies before its start counts 0 minutes.
C11_TotalsNeverNegative ==
    \A d \in DOMAIN totals :
        /\ totals[d].off_hours >= 0
        /\ totals[d].sleeper_hours >= 0
        /\ totals[d].driving_hours >= 0
        /\ totals[d].on_duty_hours >= 0

\* totals were computed for a list with an interval that runs backward by
\* more than the whole time credited to its status
C11_Witness ==
    \E d \in DOMAIN totals :
        LET S == Clamped(entries_by_day[d], d)
        IN /\ Clamp(entries_by_day[d], d) # <<>>
           /\ \E i \in 1..(Len(S) - 1) :
                /\ FloorMinutes(S[i].timestamp, S[i + 1].timestamp) < 0
                /\ \A j \in 1..(Len(S) - 1) :
                     j # i => S[j].status # S[i].status
           /\ \E i, j \in 1..Len(entries_by_day[d]) :
                /\ i # j
                /\ entries_by_day[d][i].timestamp = entries_by_day[d][j].timestamp

RECURSIVE SumWorked(_, _, _, _)
\* the cycle minutes of the keys at positions lo..hi whose list has an entry
\* inside the key's window
SumWorked(map, keys, lo, hi) ==
    IF lo > hi THEN 0
    ELSE SumWorked(map, keys, lo, hi - 1)
         + (IF HasInside(entries_by_day[keys[hi]], keys[hi])
            THEN OnDutyMin(map[keys[hi]]) ELSE 0)

\* C12: detect_violations returns the empty list for a mapping without day
\* keys; a day key whose list has no entry inside the day's window gets no
\* 11H, 14H or 30M record and adds 0 minutes to every rolling 70/8 sum.
C12_EmptyDays ==
    pc = "done" =>
        /\ DOMAIN entries_by_day = {} => violations = <<>>
        /\ \A d \in DOMAIN entries_by_day :
             ~HasInside(entries_by_day[d], d) =>
                /\ ~Has("11H", d) /\ ~Has("14H", d) /\ ~Has("30M", d)
                /\ daily_totals_map[d].driving_hours = 0
                /\ daily_totals_map[d].on_duty_hours = 0
        /\ LET keys == SortedKeys(DOMAIN entries_by_day)
           IN \A n \in 1..Len(keys) :
                Has("70/8", keys[n])
                    <=> SumWorked(daily_totals_map, keys, WindowLo(n), n) > 70 * 60

\* a finished run over a mapping without keys
C12_WitnessNoKeys == pc = "done" /\ DOMAIN entries_by_day = {}

\* a finished run with a 70/8 record whose window holds a key with an empty
\* list and a key whose only entry lies outside its window
C12_Witness ==
    /\ pc = "done"
    /\ LET keys == SortedKeys(DOMAIN entries_by_day)
       IN \E n \in 1..Len(keys) :
            /\ Has("70/8", keys[n])
            /\ \E i, j \in WindowLo(n)..n :
                 /\ entries_by_day[keys[i]] = <<>>
                 /\ entries_by_day[keys[j]] # <<>>
                 /\ ~HasInside(entries_by_day[keys[j]], keys[j])

\* the 11H, 14H and 30M records of day d in the returned list, in its order
RecordsOf(d) ==
    SelectSeq(violations, LAMBDA v : v.day = d /\ v.code \in {"11H", "14H", "30M"})

\* C13: the 11H, 14H and 30M records of a day key d are a function of d and
\* entries_by_day[d] alone: the rolling state starts fresh at every day key, so
\* the entries under other keys can change 70/8 records only.
C13_DaysIndependent ==
    pc = "done" =>
        \A d \in DOMAIN entries_by_day : RecordsOf(d) = DayRecords(entries_by_day[d], d)

\* a finished run where a day without 11H, 14H and 30M records follows a day
\* that holds all three
C13_Witness ==
    /\ pc = "done"
    /\ \E d \in DOMAIN entries_by_day :
         /\ d - 1 \in DOMAIN entries_by_day
         /\ HasInside(entries_by_day[d], d)
         /\ RecordsOf(d) = <<>>
         /\ Len(RecordsOf(d - 1)) = 3

\* list l with the entries at positions i and j exchanged
Swap(l, i, j) == [k \in 1..Len(l) |-> IF k = i THEN l[j] ELSE IF k = j THEN l[i] ELSE l[k]]

\* C14 (as stated): detect_violations returns the same list for every
\* permutation of each day's entry list (every permutation is a product of
\* exchanges of two entries).
C14_SameForEveryPermutation ==
    pc = "done" =>
        \A d \in DOMAIN entries_by_day :
            \A i, j \in 1..Len(entries_by_day[d]) :
                detect_violations([entries_by_day EXCEPT ![d] = Swap(@, i, j)]) = violations

\* C14 (amended): detect_violations returns the same list for every
\* permutation of a day's entry list whose timestamps are pairwise distinct.
C14_SameForDistinctStamps ==
    pc = "done" =>
        \A d \in DOMAIN entries_by_day :
            DistinctStamps(entries_by_day[d]) =>
                \A i, j \in 1..Len(entries_by_day[d]) :
                    detect_violations([entries_by_day EXCEPT ![d] = Swap(@, i, j)])
                        = violations

\* a finished run with records over a list of three entries with pairwise
\* distinct timestamps, latest first
C14_Witness ==
    /\ pc = "done"
    /\ violations # <<>>
    /\ \E d \in DOMAIN entries_by_day :
         LET l == entries_by_day[d]
         IN /\ Len(l) = 3
            /\ HasInside(l, d)
            /\ Lt(l[3].timestamp, l[2].timestamp)
            /\ Lt(l[2].timestamp, l[1].timestamp)

\* C15: calculate_daily_totals and detect_violations leave the caller's lists
\* and the entries_by_day mapping as they were (same elements, same order),
\* and a call repeated with the same arguments returns what the call before
\* returned.
C15_PureFunctions ==
    /\ [][entries_by_day' = entries_by_day]_vars
    /\ [](pc = "done" =>
            \A i \in 1..Len(returned) :
                returned[i] = [totals |-> totals, violations |-> violations])

\* a second call has returned, with records, over a list that is not in
\* timestamp order and ends with driving since the last break
C15_Witness ==
    /\ pc = "done"
    /\ returned # <<>>
    /\ violations # <<>>
    /\ minutes_driving_since_break > 0
    /\ \E d \in DOMAIN entries_by_day : ~Ascending(entries_by_day[d])

\* the entries of l inside the window of day, in the order of l
Inside(l, day) == SelectSeq(l, LAMBDA e : InWindow(e.timestamp, day))

RECURSIVE Between(_, _, _)
\* whole minutes of the intervals [E[i], E[i+1]), i <= k, whose E[i] has status s
Between(E, k, s) ==
    IF k = 0 THEN 0
    ELSE Between(E, k - 1, s)
         + (IF E[k].status = s THEN FloorMinutes(E[k].timestamp, E[k + 1].timestamp) ELSE 0)

\* minutes credited to status s for the in-window entries E = e1..en of day
Credit(E, day, s) ==
    (IF E[1].status = s THEN FloorMinutes(DayStartOf(day), E[1].timestamp) ELSE 0)
    + Between(E, Len(E) - 1, s)
    + (IF E[Len(E)].status = s THEN FloorMinutes(E[Len(E)].timestamp, DayEndOf(day)) ELSE 0)

\* minutes / 60 to the nearest hundredth of an hour, in hundredths
Round2(minutes) ==
    CHOOSE c \in ((5 * minutes) \div 3 - 1)..((5 * minutes) \div 3 + 1) :
        3 * c - 5 * minutes \in -1..1

\* C16: for an ascending list whose entries inside the window are e1..en,
\* n >= 1, calculate_daily_totals credits, in whole minutes truncated per
\* interval, [window start, e1) to the status of e1, each [ei, ei+1) to the
\* status of ei and [en, window end] to the status of en, and returns each
\* status's minutes / 60 rounded to 2 decimals.
C16_IntervalsCredited ==
    \A d \in DOMAIN totals :
        LET l == entries_by_day[d]
            E == Inside(l, d)
        IN Ascending(l) /\ E # <<>> =>
              totals[d] = DailyTotals(Round2(Credit(E, d, "OFF")),
                                      Round2(Credit(E, d, "SLEEPER")),
                                      Round2(Credit(E, d, "DRIVING")),
                                      Round2(Credit(E, d, "ON_DUTY")))

\* totals of an ascending list with an entry before the window, a first
\* in-window entry after the window start that is not OFF, and an interval
\* that loses a part of a minute
C16_Witness ==
    \E d \in DOMAIN totals :
        LET l == entries_by_day[d]
            E == Inside(l, d)
        IN /\ Ascending(l)
           /\ Len(l) > Len(E)
           /\ Len(E) >= 2
           /\ Lt(DayStartOf(d), E[1].timestamp)
           /\ E[1].status # "OFF"
           /\ \E i \in 1..(Len(E) - 1) : E[i].timestamp.us # E[i + 1].timestamp.us

\* C17: for an ascending list, entries before the window start or after the
\* window end do not affect calculate_daily_totals: the totals are those of
\* the list without them; the status of the last entry before the window is
\* not used for the time from the window start to the first in-window entry.
C17_OutsideEntriesIgnored ==
    \A d \in DOMAIN totals :
        LET l == entries_by_day[d]
        IN Ascending(l) =>
              /\ totals[d] = calculate_daily_totals(Inside(l, d), d)
              /\ \A i \in 1..Len(l) :
                    /\ Lt(l[i].timestamp, DayStartOf(d))
                    /\ Inside(l, d) # <<>>
                    /\ Lt(DayStartOf(d), Inside(l, d)[1].timestamp)
                    /\ l[i].status # Inside(l, d)[1].status
                    => totals[d][CASE l[i].status = "OFF" -> "off_hours"
                                   [] l[i].status = "SLEEPER" -> "sleeper_hours"
                                   [] l[i].status = "DRIVING" -> "driving_hours"
                                   [] l[i].status = "ON_DUTY" -> "on_duty_hours"]
                       = Round2(Between(Inside(l, d) \o <<LogEntry(DayEndOf(d), "OFF")>>,
                                        Len(Inside(l, d)), l[i].status))

\* totals of an ascending list with a DRIVING entry before the window, an entry
\* of another status after the window start, and an entry after the window
C17_Witness ==
    \E d \in DOMAIN totals :
        LET l == entries_by_day[d]
        IN /\ Ascending(l)
           /\ Len(l) = 3
           /\ Lt(l[1].timestamp, DayStartOf(d))
           /\ Lt(DayStartOf(d), l[2].timestamp)
           /\ InWindow(l[2].timestamp, d)
           /\ l[2].status # l[1].status
           /\ Lt(DayEndOf(d), l[3].timestamp)

\* the DRIVING and ON_DUTY intervals among 1..k since the start of the day or
\* the last OFF/SLEEPER interval of at least 600 minutes
Worked(S, k) ==
    {j \in (LastRest(S, k, 600) + 1)..k : S[j].status \in {"DRIVING", "ON_DUTY"}}

\* whole minutes from the start of the first of them to the end of interval k
SpanAt(S, k) ==
    LET first == CHOOSE j \in Worked(S, k) : \A i \in Worked(S, k) : j <= i
    IN FloorMinutes(S[first].timestamp, S[k + 1].timestamp)

\* C18: a day gets a 14H record exactly when, for some interval processed
\* while window_start is set, the whole minutes from window_start to the end of
\* the interval exceed 840; window_start is the start of the first DRIVING or
\* ON_DUTY interval since the start of the day or the last OFF/SLEEPER interval
\* of at least 600 minutes, shorter OFF/SLEEPER intervals lengthen the span,
\* and a span of exactly 840 minutes yields no record.
C18_FourteenHourRule ==
    pc = "done" =>
        \A d \in DOMAIN entries_by_day :
            Has("14H", d) <=>
                \E k \in 1..Intervals(SeqOf(d)) :
                    Worked(SeqOf(d), k) # {} /\ SpanAt(SeqOf(d), k) > 840

\* a finished run without a 14H record for a day whose longest span is 840
C18_Witness ==
    /\ pc = "done"
    /\ \E d \in DOMAIN entries_by_day :
         /\ ~Has("14H", d)
         /\ \E k \in 1..Intervals(SeqOf(d)) :
              Worked(SeqOf(d), k) # {} /\ SpanAt(SeqOf(d), k) = 840

\* a finished run with a 14H record for a day whose span first exceeds 840 at
\* the end of an OFF/SLEEPER interval shorter than 600 minutes
C18_WitnessRestLengthens ==
    /\ pc = "done"
    /\ \E d \in DOMAIN entries_by_day :
         /\ Has("14H", d)
         /\ \E k \in 1..Intervals(SeqOf(d)) :
              /\ SeqOf(d)[k].status \in {"OFF", "SLEEPER"}
              /\ Worked(SeqOf(d), k) # {}
              /\ SpanAt(SeqOf(d), k) > 840
              /\ \A j \in 1..(k - 1) :
                   Worked(SeqOf(d), j) # {} => SpanAt(SeqOf(d), j) <= 840

\* C19: within a day the flags are sticky: once minutes_driving_since_break
\* has exceeded 480 after some interval the day gets a 30M record, and once
\* driving_since_reset_min has exceeded 660 the day gets an 11H record,
\* whatever intervals follow.
C19_FlagsSticky ==
    pc = "done" =>
        \A d \in DOMAIN entries_by_day :
            \A k \in 1..Intervals(SeqOf(d)) :
                /\ RunDay(SeqOf(d), k).minutes_driving_since_break > 480 => Has("30M", d)
                /\ RunDay(SeqOf(d), k).driving_since_reset_min > 660 => Has("11H", d)

\* a finished run where both counters exceeded their limits after some
\* interval and a later 10-hour reset set them back to 0
C19_Witness ==
    /\ pc = "done"
    /\ minutes_driving_since_break = 0
    /\ driving_since_reset_min = 0
    /\ \E d \in DOMAIN entries_by_day :
         /\ Has("30M", d)
         /\ Has("11H", d)
         /\ \E k \in 1..Intervals(SeqOf(d)) :
              /\ RunDay(SeqOf(d), k).minutes_driving_since_break > 480
              /\ RunDay(SeqOf(d), k).driving_since_reset_min > 660

\* intervals i..j of S are all DRIVING or ON_DUTY
OnDutyRun(S, i, j) == \A k \in i..j : S[k].status \in {"DRIVING", "ON_DUTY"}

\* C20: an ON_DUTY interval of any length leaves minutes_driving_since_break
\* and driving_since_reset_min as they were, so driving blocks that together
\* exceed 480 minutes and are separated only by ON_DUTY time yield 30M.
C20_OnDutyKeepsCounters ==
    /\ [][(pc = "interval" /\ idx' = idx + 1 /\ seq[idx + 1].status = "ON_DUTY")
             => /\ minutes_driving_since_break' = minutes_driving_since_break
                /\ driving_since_reset_min' = driving_since_reset_min]_vars
    /\ [](pc = "done" =>
            \A d \in DOMAIN entries_by_day :
                \A i, j \in 1..Intervals(SeqOf(d)) :
                    OnDutyRun(SeqOf(d), i, j) /\ DrivingIn(SeqOf(d), i, j) > 480
                        => Has("30M", d))

\* a finished run with a 30M record for a day whose DRIVING intervals are each
\* at most 480 minutes and never adjacent, two of them separated by ON_DUTY
\* time of more than 30 minutes and together longer than 480 minutes
C20_Witness ==
    /\ pc = "done"
    /\ \E d \in DOMAIN entries_by_day :
         LET S == SeqOf(d)
         IN /\ Has("30M", d)
            /\ \A k \in 1..Intervals(S) :
                 S[k].status = "DRIVING" =>
                    /\ IntervalMinutes(S, k) <= 480
                    /\ k < Intervals(S) => S[k + 1].status # "DRIVING"
            /\ \E i \in 1..(Intervals(S) - 2) :
                 /\ S[i].status = "DRIVING"
                 /\ S[i + 1].status = "ON_DUTY"
                 /\ IntervalMinutes(S, i + 1) > 30
                 /\ S[i + 2].status = "DRIVING"
                 /\ DrivingIn(S, i, i + 2) > 480

\* C21: an OFF or SLEEPER interval of at least 30 and fewer than 600 minutes
\* sets minutes_driving_since_break to 0 and leaves driving_since_reset_min
\* and window_start as they were; a shorter one changes none of the three.
C21_BreakResetsOnlyBreakCounter ==
    [][(pc = "interval" /\ idx' = idx + 1 /\ seq[idx + 1].status \in {"OFF", "SLEEPER"})
          => LET minutes == IntervalMinutes(seq, idx + 1)
             IN /\ minutes >= 30 /\ minutes < 600
                    => /\ minutes_driving_since_break' = 0
                       /\ driving_since_reset_min' = driving_since_reset_min
                       /\ window_start' = window_start
                /\ minutes < 30
                    => /\ minutes_driving_since_break' = minutes_driving_since_break
                       /\ driving_since_reset_min' = driving_since_reset_min
                       /\ window_start' = window_start]_vars

\* an OFF/SLEEPER interval of 30..599 minutes has just been processed after
\* driving: the break counter is 0, the driving counter and window_start are set
C21_Witness ==
    /\ pc = "interval"
    /\ idx >= 2
    /\ seq[idx].status \in {"OFF", "SLEEPER"}
    /\ IntervalMinutes(seq, idx) >= 30
    /\ IntervalMinutes(seq, idx) < 600
    /\ RunDay(seq, idx - 1).minutes_driving_since_break > 0
    /\ minutes_driving_since_break = 0
    /\ driving_since_reset_min > 0
    /\ window_start # <<>>

\* an OFF/SLEEPER interval shorter than 30 minutes has just been processed
\* after driving and all three are as they were
C21_WitnessShortRest ==
    /\ pc = "interval"
    /\ idx >= 2
    /\ seq[idx].status \in {"OFF", "SLEEPER"}
    /\ IntervalMinutes(seq, idx) < 30
    /\ minutes_driving_since_break > 0
    /\ driving_since_reset_min > 0
    /\ window_start # <<>>

\* C22: after the last interval of a day 30M is also emitted when
\* minutes_driving_since_break is at least 480, exactly 480 included, even if
\* the counter exceeded 480 after no interval.
C22_EndOfDayBreakCheck ==
    pc = "done" =>
        \A d \in DOMAIN entries_by_day :
            LET S == SeqOf(d)
            IN S # <<>> /\ RunDay(S, Intervals(S)).minutes_driving_since_break >= 480
                  => Has("30M", d)

\* a finished run with a 30M record for a day whose counter ends at exactly
\* 480 and exceeded 480 after no interval
C22_Witness ==
    /\ pc = "done"
    /\ minutes_driving_since_break = 480
    /\ \E d \in DOMAIN entries_by_day :
         /\ Has("30M", d)
         /\ \A k \in 1..Intervals(SeqOf(d)) :
              RunDay(SeqOf(d), k).minutes_driving_since_break <= 480

\* C23: the time from the window start to the first in-window entry goes to
\* that entry's status and the time after the last entry to the last entry's
\* status; a day whose only in-window entry is a DRIVING entry, at any time of
\* the day, gets 11H, 14H and 30M records.
C23_SingleDrivingEntry ==
    pc = "done" =>
        \A d \in DOMAIN entries_by_day :
            LET E == Inside(entries_by_day[d], d)
                S == SeqOf(d)
            IN /\ E # <<>> =>
                    /\ S[1].timestamp = DayStartOf(d)
                    /\ \E i \in 1..Len(E) :
                         /\ S[1].status = E[i].status
                         /\ \A j \in 1..Len(E) : Le(E[i].timestamp, E[j].timestamp)
                    /\ S[Len(S)].timestamp = DayEndOf(d)
                    /\ \E i \in 1..Len(E) :
                         /\ S[Len(S) - 1].status = E[i].status
                         /\ \A j \in 1..Len(E) : Le(E[j].timestamp, E[i].timestamp)
               /\ Len(E) = 1 /\ E[1].status = "DRIVING"
                    => Has("11H", d) /\ Has("14H", d) /\ Has("30M", d)

\* a finished run with the three records for a day whose only in-window entry
\* is a DRIVING entry stamped 21:01
C23_Witness ==
    /\ pc = "done"
    /\ \E d \in DOMAIN entries_by_day :
         LET E == Inside(entries_by_day[d], d)
         IN /\ Len(E) = 1
            /\ E[1] = LogEntry(At(d, 1261, 0), "DRIVING")
            /\ Has("11H", d) /\ Has("14H", d) /\ Has("30M", d)

\* DRIVING minutes at the end of day sequence S since the last OFF/SLEEPER
\* interval of at least 600 minutes, when the day ends driving
TailDriving(S) ==
    IF S # <<>> /\ S[Intervals(S)].status = "DRIVING"
    THEN DrivingSince(S, Intervals(S), 600)
    ELSE 0

\* C24: the 11-hour limit is enforced across days: when day d ends driving and
\* day d + 1 starts driving, with no OFF/SLEEPER rest of at least 10 hours in
\* between, the driving minutes of both days are accumulated and day d + 1
\* gets an 11H record once the accumulated driving exceeds 660 minutes.
C24_ElevenHourAcrossDays ==
    pc = "done" =>
        \A d \in DOMAIN entries_by_day :
            d + 1 \in DOMAIN entries_by_day =>
                LET S1 == SeqOf(d)
                    S2 == SeqOf(d + 1)
                IN (/\ TailDriving(S1) > 0
                    /\ S2 # <<>>
                    /\ S2[1].status = "DRIVING"
                    /\ \E k \in 1..Intervals(S2) :
                         /\ LastRest(S2, k, 600) = 0
                         /\ TailDriving(S1) + DrivingIn(S2, 1, k) > 660)
                   => Has("11H", d + 1)

RECURSIVE CalendarHours(_, _, _)
\* driving plus on-duty hours (in hundredths) of the calendar days lo..hi, a
\* day without key counting 0
CalendarHours(map, lo, hi) ==
    IF lo > hi THEN 0
    ELSE CalendarHours(map, lo, hi - 1)
         + (IF hi \in DOMAIN map
            THEN map[hi].driving_hours + map[hi].on_duty_hours ELSE 0)

\* C25: a 70/8 record for day d is emitted only if the driving plus on-duty
\* hours of the 8 consecutive calendar days ending at d exceed 70 hours, a day
\* without key counting 0; keys more than 7 calendar days before d never count.
C25_CalendarWindow ==
    pc = "done" =>
        \A d \in DOMAIN entries_by_day :
            Has("70/8", d) => CalendarHours(daily_totals_map, d - 7, d) > 70 * 100

\* C26: for every driver UTC offset, every LogEntry that HOSSummaryView
\* groups under local day key d has a timestamp inside the window
\* [d 00:00:00, d 23:59:59.999999] used for d, so that no stored event is
\* dropped from the daily totals or the violation check.
C26_EntriesInsideKeyWindow ==
    pc \notin {"get", "not_found"} =>
        \A d \in DOMAIN entries_by_day :
            \A i \in 1..Len(entries_by_day[d]) : InWindow(entries_by_day[d][i].timestamp, d)

\* C27 (as stated): for every day, an 11H record implies that the totals of
\* the day's sorted entries report more than 11 hours of DRIVING, a 30M record
\* at least 8 hours of DRIVING, and a 14H record DRIVING plus ON_DUTY greater
\* than 0.
C27_ViolationsMatchTotals ==
    pc = "done" =>
        \A d \in DOMAIN entries_by_day :
            /\ Has("11H", d) => daily_totals_map[d].driving_hours > 11 * 100
            /\ Has("30M", d) => daily_totals_map[d].driving_hours >= 8 * 100
            /\ Has("14H", d) =>
                  daily_totals_map[d].driving_hours + daily_totals_map[d].on_duty_hours > 0

\* C27 (amended): an 11H record implies more than 11 hours of DRIVING in the
\* day's totals, a 30M record at least 8 hours of DRIVING, and a 14H record
\* that the day's sequence holds a DRIVING or ON_DUTY interval (which may be
\* credited 0 whole minutes).
C27_ViolationsMatchEntries ==
    pc = "done" =>
        \A d \in DOMAIN entries_by_day :
            /\ Has("11H", d) => daily_totals_map[d].driving_hours > 11 * 100
            /\ Has("30M", d) => daily_totals_map[d].driving_hours >= 8 * 100
            /\ Has("14H", d) =>
                  \E k \in 1..Intervals(SeqOf(d)) :
                      SeqOf(d)[k].status \in {"DRIVING", "ON_DUTY"}

\* a finished run with a 14H record for a day whose totals hold neither
\* DRIVING nor ON_DUTY time
C27_Witness ==
    /\ pc = "done"
    /\ \E d \in DOMAIN entries_by_day :
         /\ Has("14H", d)
         /\ daily_totals_map[d].driving_hours + daily_totals_map[d].on_duty_hours = 0

\* a finished run with 11H and 30M records over a list given out of order
C27_WitnessDriving ==
    /\ pc = "done"
    /\ \E d \in DOMAIN entries_by_day :
         /\ Has("11H", d)
         /\ Has("30M", d)
         /\ ~Ascending(entries_by_day[d])
         /\ daily_totals_map[d].driving_hours < 12 * 100

\* C28: after every interval step of a day's pass,
\* 0 <= minutes_driving_since_break <= driving_since_reset_min
\* <= max_driving_since_reset_min; whenever driving_since_reset_min > 0,
\* window_start is set and driving_since_reset_min <= whole minutes from
\* window_start to the interval's end <= max_window_span_min; and the two
\* maxima never decrease from one interval to the next.
C28_RollingInvariants ==
    /\ [](pc = "interval" /\ idx >= 1 =>
            /\ 0 <= minutes_driving_since_break
            /\ minutes_driving_since_break <= driving_since_reset_min
            /\ driving_since_reset_min <= max_driving_since_reset_min
            /\ driving_since_reset_min > 0 =>
                  /\ window_start # <<>>
                  /\ driving_since_reset_min
                        <= FloorMinutes(window_start[1], seq[idx + 1].timestamp)
                  /\ FloorMinutes(window_start[1], seq[idx + 1].timestamp)
                        <= max_window_span_min)
    /\ [][(pc = "interval" /\ idx' = idx + 1) =>
             /\ max_driving_since_reset_min' >= max_driving_since_reset_min
             /\ max_window_span_min' >= max_window_span_min]_vars

\* after an interval: driving since the last break, more driving since the
\* start of the day, and a span longer than the driving
C28_Witness ==
    /\ pc = "interval"
    /\ idx >= 3
    /\ 0 < minutes_driving_since_break
    /\ minutes_driving_since_break < driving_since_reset_min
    /\ window_start # <<>>
    /\ driving_since_reset_min < FloorMinutes(window_start[1], seq[idx + 1].timestamp)

\* after an interval that follows a 10-hour reset: less driving since the
\* reset than the largest driving total of the day
C28_WitnessAfterReset ==
    /\ pc = "interval"
    /\ 0 < driving_since_reset_min
    /\ driving_since_reset_min < max_driving_since_reset_min

\* ---- C29 ----

\* whole minutes of the day at which a status is restated
RestateMinutes == {660, 960}

\* the index of the entry of an ascending list in effect at t: the last one
\* stamped at or before t (0 when there is none)
InEffect(l, t) == Cardinality({i \in 1..Len(l) : Le(l[i].timestamp, t)})

\* the list with an extra entry at t carrying the status in effect at t
Restated(l, t) == InsertSorted(l, LogEntry(t, l[InEffect(l, t)].status))

\* C29: inserting into a day's ascending list an extra entry at a whole
\* minute, with the status of the in-window entry in effect at that minute,
\* leaves the violations of detect_violations and the totals of
\* calculate_daily_totals as they were
C29_RestatedStatus ==
    pc = "done" =>
        \A d \in DOMAIN entries_by_day : \A m \in RestateMinutes :
            LET l == entries_by_day[d]
                t == At(d, m, 0)
            IN (/\ Ascending(l)
                /\ InEffect(l, t) > 0
                /\ InWindow(l[InEffect(l, t)].timestamp, d)) =>
                   /\ detect_violations([entries_by_day EXCEPT ![d] = Restated(l, t)])
                         = violations
                   /\ calculate_daily_totals(Restated(l, t), d)
                         = calculate_daily_totals(l, d)

\* C29, the example of the claim: a 10-hour OFF rest between two 6-hour
\* driving blocks gives no violation, and none either when the rest is
\* recorded as two consecutive OFF entries
C29_SplitRestStillResets ==
    (pc = "done" /\ entries_by_day[TheDay] = TwoBlocks(TheDay)) =>
        /\ violations = <<>>
        /\ detect_violations([d \in {TheDay} |->
               Restated(TwoBlocks(TheDay), At(TheDay, 660, 0))]) = <<>>

\* C29, the totals alone
C29_RestatedTotals ==
    pc = "done" =>
        \A d \in DOMAIN entries_by_day : \A m \in RestateMinutes :
            LET l == entries_by_day[d]
                t == At(d, m, 0)
            IN (/\ Ascending(l)
                /\ InEffect(l, t) > 0
                /\ InWindow(l[InEffect(l, t)].timestamp, d)) =>
                   calculate_daily_totals(Restated(l, t), d)
                      = calculate_daily_totals(l, d)

\* ---- C30 ----

\* the DailyLog rows of a trip, driver and day
RowsOf(rows, trip_id, user, day) ==
    {r \in rows : r.trip = trip_id /\ r.driver = user /\ r.day = day}

\* the four stored totals of a row, and the four totals of a DailyTotals
StoredTotals(r) == <<r.total_off, r.total_sleeper, r.total_driving, r.total_on_duty>>

TotalsOf(t) == <<t.off_hours, t.sleeper_hours, t.driving_hours, t.on_duty_hours>>

\* at most one DailyLog per (trip, driver, day), each one submitted and
\* belonging to the owner of its trip
OneSubmittedRowPerDay ==
    /\ \A r1, r2 \in daily_logs :
          (r1.trip = r2.trip /\ r1.driver = r2.driver /\ r1.day = r2.day) => r1 = r2
    /\ \A r \in daily_logs : r.submitted /\ r.submitted_at # <<>> /\ OwnsTrip(r.driver, r.trip)

\* a step that serves a submit of the trip's owner for a day: 200, the row of
\* that day holds the totals of its events (in an order the query may give),
\* or with no event the totals it had (0 for a new row); other rows stay
OwnerSubmitStep ==
    LET q == request'
        evs == EventsOf(log_events, q.trip_id, q.user, q.day[1])
        old == RowsOf(daily_logs, q.trip_id, q.user, q.day[1])
        new == RowsOf(daily_logs', q.trip_id, q.user, q.day[1])
    IN /\ response' = 200
       /\ daily_logs' \ new = daily_logs \ old
       /\ Cardinality(new) = 1
       /\ \A r \in new :
             /\ r.submitted
             /\ IF evs # {}
                THEN \E logs \in OrderedByTimestamp(evs) :
                        StoredTotals(r)
                           = TotalsOf(calculate_daily_totals(EntriesOf(logs), q.day[1]))
                ELSE IF old = {}
                THEN StoredTotals(r) = <<0, 0, 0, 0>>
                ELSE \A o \in old : StoredTotals(r) = StoredTotals(o)

\* C30 as stated: after any posts there is one submitted DailyLog per
\* (trip, driver, day); an owner's submit stores the totals of the day's
\* events or, with none, leaves the stored totals; a post for a trip the
\* requester does not own returns 404 and changes no DailyLog
C30_SubmitNotOwnedIs404 ==
    /\ [](pc = "serve" => OneSubmittedRowPerDay)
    /\ [][(pc = "serve" /\ request'.method = "submit") =>
             IF ~OwnsTrip(request'.user, request'.trip_id)
             THEN response' = 404 /\ daily_logs' = daily_logs
             ELSE request'.day # <<>> => OwnerSubmitStep]_vars

\* C30, amended: the same, where a post that names no day returns 400 and
\* changes no DailyLog whoever sends it, and a post that names a day for a
\* trip the requester does not own returns 404 and changes no DailyLog
C30_SubmitStoresTotals ==
    /\ [](pc = "serve" => OneSubmittedRowPerDay)
    /\ [][(pc = "serve" /\ request'.method = "submit") =>
             IF request'.day = <<>>
             THEN response' = 400 /\ daily_logs' = daily_logs
             ELSE IF ~OwnsTrip(request'.user, request'.trip_id)
             THEN response' = 404 /\ daily_logs' = daily_logs
             ELSE OwnerSubmitStep]_vars

\* a second submit of a day after a further event: two rows, the row of the
\* submitted day holds driving hours and its day holds two events
C30_Witness ==
    /\ pc = "serve"
    /\ request.method = "submit"
    /\ response = 200
    /\ Cardinality(daily_logs) = 2
    /\ \E r \in RowsOf(daily_logs, request.trip_id, request.user, request.day[1]) :
          /\ r.total_driving > 0
          /\ r.total_off > 0
          /\ Cardinality(EventsOf(log_events, r.trip, r.driver, r.day)) = 2

\* a submit without a day for a trip the requester does not own was answered
\* 400 while rows exist
C30_WitnessNoDay ==
    /\ pc = "serve"
    /\ request.method = "submit"
    /\ request.day = <<>>
    /\ ~OwnsTrip(request.user, request.trip_id)
    /\ response = 400
    /\ daily_logs # {}

\* a submit for a day without events was answered 200
C30_WitnessNoEvents ==
    /\ pc = "serve"
    /\ request.method = "submit"
    /\ response = 200
    /\ log_events # {}
    /\ EventsOf(log_events, request.trip_id, request.user, request.day[1]) = {}

====
